---- MODULE Spec2Model ----
(***************************************************************************)
(* Model of the retrieval-augmented chat endpoint (app/api/chat/route.ts)  *)
(* and of the filename rules the README documents for the paper PDFs.      *)
(*                                                                         *)
(* Strings the code builds by concatenation are sequences: a paper title   *)
(* is a sequence of one-character strings, a prompt is a sequence of       *)
(* tokens (literal pieces and tagged blocks), and concatenation is \o.     *)
(* Scores are in hundredths (0.81 is 81).                                  *)
(***************************************************************************)
EXTENDS Integers, Sequences, FiniteSets, TLC

VARIABLES
  pc,          \* position of the POST handler: idle, embedding, searching, generating, done
  body,        \* the parsed request body of the request being handled
  calls,       \* the external calls issued for this request, in order
  matches,     \* searchResults.matches as returned by the vector index
  messages,    \* the conversation handed to openai.chat.completions.create
  response,    \* the NextResponse the handler returned
  paperTitle,  \* the title a filename is derived for
  pdfFile,     \* createPdfFilename(paperTitle), once called
  target,      \* the file name copy_papers.py writes for paperTitle, once run
  transcript,  \* Home: the messages state of the chat client
  input,       \* Home: the input state, a sequence of characters
  isLoading,   \* Home: the isLoading state
  requests,    \* the fetch calls to /api/chat that have not settled yet, oldest first
  sent,        \* how many requests the client has sent so far
  lastEvent,   \* what the last event did to the client
  msgSources,  \* the sources of the assistant message being rendered
  fromServer,  \* whether msgSources is a sources list the POST handler returned
  buttons,     \* the SourceButtons rendered for msgSources, once rendered
  opened       \* what window.open was last called with; <<>> while nothing was opened

handlerVars == <<pc, body, calls, matches, messages, response>>
filenameVars == <<paperTitle, pdfFile, target>>
clientVars == <<transcript, input, isLoading, requests, sent, lastEvent>>
displayVars == <<msgSources, fromServer, buttons, opened>>

vars == <<handlerVars, filenameVars, clientVars, displayVars>>

(***************************************************************************)
(* Bounds                                                                  *)
(***************************************************************************)
MaxTail == 3       \* free characters at the end of a generated title
MaxHistory == 7    \* longest chatHistory a request carries
MaxMatches == 8    \* most matches one search reply carries (at most topK)

(***************************************************************************)
(* Characters                                                              *)
(***************************************************************************)
LowerCase == {"a","b","c","d","e","f","g","h","i","j","k","l","m",
              "n","o","p","q","r","s","t","u","v","w","x","y","z"}
UpperCase == {"A","B","C","D","E","F","G","H","I","J","K","L","M",
              "N","O","P","Q","R","S","T","U","V","W","X","Y","Z"}
Digits == {"0","1","2","3","4","5","6","7","8","9"}

\* U+00E9 is a letter outside ASCII (e with acute accent)
NonAsciiLetters == {"U+00E9"}

\* what the regular expression class \s matches
IsWhitespace(c) == c \in {" ", "\t"}

\* [a-zA-Z0-9\s-]
IsKeptChar(c) ==
  c \in LowerCase \/ c \in UpperCase \/ c \in Digits \/ IsWhitespace(c) \/ c = "-"

\* Python's str.isalnum for one character
IsAlnum(c) ==
  c \in LowerCase \/ c \in UpperCase \/ c \in Digits \/ c \in NonAsciiLetters

\* the class taken as [^\w\s-], which keeps the underscore
RemoveSpecialChars_keepUnderscore(s) == SelectSeq(s, LAMBDA c : IsKeptChar(c) \/ c = "_")

\* .replace(/[^a-zA-Z0-9\s-]/g, '')
RemoveSpecialChars(s) == SelectSeq(s, IsKeptChar)

\* .replace(/\s+/g, '_') : each maximal run of whitespace becomes one underscore
SpacesToUnderscores(s) ==
  LET StartsPiece(i) == ~IsWhitespace(s[i]) \/ i = 1 \/ ~IsWhitespace(s[i - 1])
      starts == SelectSeq([i \in 1..Len(s) |-> i], StartsPiece)
  IN  [k \in 1..Len(starts) |-> IF IsWhitespace(s[starts[k]]) THEN "_" ELSE s[starts[k]]]

FilenameLimit == 80

\* .substring(0, n)
Substring0(s, n) == SubSeq(s, 1, IF Len(s) < n THEN Len(s) ELSE n)

PdfSuffix == <<".", "p", "d", "f">>

\* whitespace turned into underscores before the special characters are removed
createPdfFilename_spacesFirst(title) ==
  Substring0(RemoveSpecialChars(SpacesToUnderscores(title)), FilenameLimit) \o PdfSuffix

createPdfFilename(title) ==
  Substring0(SpacesToUnderscores(RemoveSpecialChars(title)), FilenameLimit) \o PdfSuffix

(***************************************************************************)
(* README, copy_papers.py: the target file name of a paper                 *)
(***************************************************************************)
\* ''.join(c if c.isalnum() or c in ' -_' else '_' for c in paper)[:80]
CleanName(paper) ==
  Substring0([i \in 1..Len(paper) |->
                IF IsAlnum(paper[i]) \/ paper[i] \in {" ", "-", "_"}
                THEN paper[i] ELSE "_"], FilenameLimit)

\* clean_name.replace(' ', '_') followed by ".pdf"
CopyPapersTarget(paper) ==
  LET clean_name == CleanName(paper)
  IN  [i \in 1..Len(clean_name) |-> IF clean_name[i] = " " THEN "_" ELSE clean_name[i]]
      \o PdfSuffix

(***************************************************************************)
(* Request, matches and the values the handler derives from them           *)
(***************************************************************************)
\* a field that is not present (JavaScript undefined)
Undefined == "<undefined>"

\* a piece of literal text inside a longer string
Lit(text) == [tag |-> "lit", source |-> <<>>, page |-> 0, content |-> text]

\* `${s}` for a string s of the request
Str(s) == IF s = "" THEN <<>> ELSE <<Lit(s)>>

\* only undefined counts as missing
Truthy_defined(v) == v # Undefined

\* truthiness of a string-or-undefined value
Truthy(v) == v # Undefined /\ v # ""

ScoreFloor == 30     \* 0.3
HistoryLimit == 6    \* chatHistory.slice(-6)
ImageLimit == 4      \* imageResults.slice(0, 4)
SourceLimit == 6     \* sources.slice(0, 6)
TopK == 12           \* topK: 12

\* array.slice(0, n)
SliceFirst(s, n) == SubSeq(s, 1, IF Len(s) < n THEN Len(s) ELSE n)

\* the first n instead of the last n
SliceLast_first(s, n) == SubSeq(s, 1, IF Len(s) < n THEN Len(s) ELSE n)

\* array.slice(-n)
SliceLast(s, n) == SubSeq(s, (IF Len(s) > n THEN Len(s) - n ELSE 0) + 1, Len(s))

\* match.score || 0
ScoreOrZero(match) == IF match.hasScore THEN match.score ELSE 0

\* the floor taken as "at least 0.3"
PassesFloor_atLeast(match) == match.hasMetadata /\ ScoreOrZero(match) >= ScoreFloor

\* the filter of contextItems: match.metadata && (match.score || 0) > 0.3
PassesFloor(match) == match.hasMetadata /\ ScoreOrZero(match) > ScoreFloor

ToContextItem_noScore(match) ==
  [type |-> match.content_type, content |-> match.content, source |-> match.paper_title,
   page |-> match.page_number, imageUrl |-> match.image_url, score |-> 0]

\* the map of contextItems: one ContextItem per surviving match
ToContextItem(match) ==
  [type |-> match.content_type, content |-> match.content, source |-> match.paper_title,
   page |-> match.page_number, imageUrl |-> match.image_url, score |-> ScoreOrZero(match)]

ContextItems(ms) ==
  LET kept == SelectSeq(ms, PassesFloor)
  IN  [i \in 1..Len(kept) |-> ToContextItem(kept[i])]

IsTextItem(item) == item.type = "text"
\* an image counts whenever imageUrl is not undefined
IsImageItem_defined(item) == item.type = "image" /\ item.imageUrl # Undefined

IsImageItem(item) == item.type = "image" /\ Truthy(item.imageUrl)

TextResults(ms) == SelectSeq(ContextItems(ms), IsTextItem)
ImageResults(ms) == SelectSeq(ContextItems(ms), IsImageItem)

TextHeader == Lit("### Relevant Text from Research Papers:")
FigureHeader == Lit("### Relevant Figures/Charts Available:")

\* [Paper: "source", Page page] content
PaperBlock(item) ==
  [tag |-> "Paper", source |-> item.source, page |-> item.page, content |-> item.content]

\* [Figure from: "source", Page page] Figure Description: content
FigureBlock(item) ==
  [tag |-> "Figure", source |-> item.source, page |-> item.page, content |-> item.content]

TextSection(ms) ==
  LET textResults == TextResults(ms)
  IN  IF Len(textResults) > 0
      THEN <<TextHeader>> \o [i \in 1..Len(textResults) |-> PaperBlock(textResults[i])]
      ELSE <<>>

FigureSection_shown(ms) ==
  LET imageResults == SliceFirst(ImageResults(ms), ImageLimit)
  IN  IF Len(imageResults) > 0
      THEN <<FigureHeader>> \o [i \in 1..Len(imageResults) |-> FigureBlock(imageResults[i])]
      ELSE <<>>

\* if (imageResults.length > 0) { header; one block per item }
FigureSection(ms) ==
  LET imageResults == ImageResults(ms)
  IN  IF Len(imageResults) > 0
      THEN <<FigureHeader>> \o [i \in 1..Len(imageResults) |-> FigureBlock(imageResults[i])]
      ELSE <<>>

contextString_figuresFirst(ms) == FigureSection(ms) \o TextSection(ms)

\* contextString after both sections are appended
contextString(ms) == TextSection(ms) \o FigureSection(ms)

systemPrompt == <<Lit("You are an expert research assistant ...")>>

BuildMessages_questionFirst(message, chatHistory, ms) ==
  <<[role |-> "system", content |-> systemPrompt]>>
  \o (LET kept == SliceLast(chatHistory, HistoryLimit)
      IN  [i \in 1..Len(kept) |-> [role |-> kept[i].role, content |-> kept[i].content]])
  \o <<[role |-> "user",
        content |-> <<Lit("User Question:")>> \o Str(message)
                    \o <<Lit("Research Context:")>> \o contextString(ms)
                    \o <<Lit("Answer the user's question using only the research context above.")>>]>>

\* the messages array of the generation call
BuildMessages(message, chatHistory, ms) ==
  <<[role |-> "system", content |-> systemPrompt]>>
  \o (LET kept == SliceLast(chatHistory, HistoryLimit)
      IN  [i \in 1..Len(kept) |-> [role |-> kept[i].role, content |-> kept[i].content]])
  \o <<[role |-> "user",
        content |-> <<Lit("Research Context:")>> \o contextString(ms)
                    \o <<Lit("User Question:")>> \o Str(message)
                    \o <<Lit("Answer the user's question using only the research context above.")>>]>>

(***************************************************************************)
(* sourceMap: a plain JavaScript object keyed by paper title               *)
(***************************************************************************)
T_constructor == <<"c","o","n","s","t","r","u","c","t","o","r">>
T_toString == <<"t","o","S","t","r","i","n","g">>
T_valueOf == <<"v","a","l","u","e","O","f">>
T_proto == <<"_","_","p","r","o","t","o","_","_">>

\* property names every object inherits from Object.prototype (all truthy)
ObjectPrototypeKeys == {T_constructor, T_toString, T_valueOf, T_proto}

DigitValue(c) == CHOOSE n \in 0..9 : ToString(n) = c

\* a < b for two strings of digits of equal length
RECURSIVE DigitsLess(_, _)
DigitsLess(a, b) ==
  /\ a # <<>>
  /\ \/ DigitValue(Head(a)) < DigitValue(Head(b))
     \/ Head(a) = Head(b) /\ DigitsLess(Tail(a), Tail(b))

\* numeric order of two canonical numeric strings
IndexLess(a, b) == Len(a) < Len(b) \/ (Len(a) = Len(b) /\ DigitsLess(a, b))

\* 2^32 - 2, the largest array index
MaxArrayIndex == <<"4","2","9","4","9","6","7","2","9","4">>

\* a property name that is a canonical array index: such keys are enumerated first
IsIntegerKey(key) ==
  /\ Len(key) >= 1
  /\ \A i \in 1..Len(key) : key[i] \in Digits
  /\ (Len(key) > 1 => key[1] # "0")
  /\ ~IndexLess(MaxArrayIndex, key)

\* sourceMap[key] as a condition: an own entry or an inherited property
HasProperty(entries, key) ==
  \/ \E i \in 1..Len(entries) : entries[i].title = key
  \/ key \in ObjectPrototypeKeys

\* textResults.forEach(t => { if (!sourceMap[t.source]) sourceMap[t.source] = {...} })
\* the result lists the own entries in the order they were created
RECURSIVE AddSources(_, _)
AddSources(entries, textResults) ==
  IF textResults = <<>> THEN entries
  ELSE LET t == Head(textResults)
       IN  IF HasProperty(entries, t.source)
           THEN AddSources(entries, Tail(textResults))
           ELSE AddSources(Append(entries, [title |-> t.source, page |-> t.page,
                                            pdfFile |-> createPdfFilename(t.source)]),
                           Tail(textResults))

sourceMap_allItems(ms) == AddSources(<<>>, ContextItems(ms))

\* sourceMap after the loop over textResults
sourceMap(ms) == AddSources(<<>>, TextResults(ms))

\* the entries with integer keys, in ascending numeric order
RECURSIVE SortByKey(_)
SortByKey(entries) ==
  IF entries = <<>> THEN <<>>
  ELSE LET least == CHOOSE i \in 1..Len(entries) :
                      \A j \in 1..Len(entries) :
                        ~IndexLess(entries[j].title, entries[i].title)
       IN  <<entries[least]>>
           \o SortByKey(SubSeq(entries, 1, least - 1) \o SubSeq(entries, least + 1, Len(entries)))

HasIntegerKey(entry) == IsIntegerKey(entry.title)
HasStringKey(entry) == ~IsIntegerKey(entry.title)

\* Object.keys(sourceMap).forEach(key => sources.push(sourceMap[key]))
ObjectKeysOrder(entries) ==
  SortByKey(SelectSeq(entries, HasIntegerKey)) \o SelectSeq(entries, HasStringKey)

Sources(ms) == ObjectKeysOrder(sourceMap(ms))

\* imageResults.slice(0, 4).map(...)
ResponseImages(ms) ==
  LET shown == SliceFirst(ImageResults(ms), ImageLimit)
  IN  [i \in 1..Len(shown) |->
         [url |-> shown[i].imageUrl, source |-> shown[i].source, page |-> shown[i].page,
          description |-> shown[i].content, pdfFile |-> createPdfFilename(shown[i].source),
          score |-> shown[i].score]]

\* the sources list returned whole
ResponseSources_all(ms) == Sources(ms)

\* sources.slice(0, 6)
ResponseSources(ms) == SliceFirst(Sources(ms), SourceLimit)

\* completion.choices[0].message.content || ''
ContentOrEmpty(content) == IF Truthy(content) THEN content ELSE ""

SuccessBody(content, ms) ==
  [message |-> ContentOrEmpty(content), images |-> ResponseImages(ms),
   sources |-> ResponseSources(ms)]

\* the error body with the answer field kept
FailedToProcess_partial ==
  [error |-> "Failed to process your request. Please try again.", message |-> ""]

MessageRequired == [error |-> "Message is required"]
FailedToProcess == [error |-> "Failed to process your request. Please try again."]

(***************************************************************************)
(* Inputs: request bodies and the replies of the vector index              *)
(***************************************************************************)
T_GLOF == <<"G","L","O","F","s">>
T_IceMelt == <<"I","c","e"," ","m","e","l","t">>
T_IceColonMelt == <<"I","c","e",":"," ","m","e","l","t">>
T_Monsoon == <<"M","o","n","s","o","o","n">>
T_Snow == <<"S","n","o","w","-","c","o","v","e","r">>
T_Lakes == <<"L","a","k","e","s">>
T_2024 == <<"2","0","2","4">>
T_7 == <<"7">>

Match(id, type, title, page, url, score) ==
  [id |-> id, hasScore |-> TRUE, score |-> score, hasMetadata |-> TRUE,
   content_type |-> type, paper_title |-> title, page_number |-> page,
   content |-> id, image_url |-> url]

\* score?: number is absent
WithoutScore(match) == [match EXCEPT !.hasScore = FALSE, !.score = 0]

\* metadata?: {...} is absent
WithoutMetadata(match) ==
  [match EXCEPT !.hasMetadata = FALSE, !.content_type = Undefined, !.paper_title = <<>>,
                !.page_number = 0, !.content = Undefined, !.image_url = Undefined]

\* text passages of many papers, best first
IndexPassages ==
  << Match("p1", "text", T_GLOF, 5, Undefined, 95),
     Match("p2", "text", T_IceMelt, 3, Undefined, 90),
     Match("p3", "text", T_Lakes, 1, Undefined, 85),
     Match("p4", "text", T_constructor, 7, Undefined, 80),
     Match("p5", "text", T_IceColonMelt, 4, Undefined, 75),
     Match("p6", "text", T_GLOF, 12, Undefined, 70),
     Match("p7", "text", T_2024, 2, Undefined, 65),
     Match("p8", "text", T_Monsoon, 9, Undefined, 60),
     Match("p9", "text", T_Snow, 6, Undefined, 55),
     Match("p10", "text", T_7, 8, Undefined, 50) >>

\* figures, some without a usable URL, some at or below the floor
IndexFigures ==
  << Match("f1", "image", T_GLOF, 6, "https://img/1.png", 92),
     Match("f2", "image", T_IceMelt, 8, "https://img/2.png", 88),
     Match("f3", "image", T_Monsoon, 1, Undefined, 86),
     Match("f4", "image", T_Snow, 3, "https://img/4.png", 77),
     Match("f5", "image", T_GLOF, 9, "", 60),
     Match("f6", "image", T_2024, 2, "https://img/6.png", 55),
     Match("f7", "image", T_Snow, 4, "https://img/7.png", 45),
     Match("f8", "image", T_IceMelt, 1, "https://img/8.png", 31),
     Match("f9", "image", T_GLOF, 2, "https://img/9.png", 30),
     WithoutScore(Match("f10", "image", T_Snow, 8, "https://img/10.png", 0)) >>

\* passages and figures mixed with the anomalies the filter drops
IndexMixed ==
  << WithoutMetadata(Match("m1", "text", <<>>, 0, Undefined, 99)),
     Match("m2", "text", T_GLOF, 5, Undefined, 81),
     Match("m3", "image", T_GLOF, 7, "https://img/3.png", 60),
     Match("m4", "table", T_Lakes, 2, Undefined, 50),
     Match("m5", "text", T_GLOF, 12, Undefined, 45),
     Match("m6", "text", T_IceMelt, 1, Undefined, 31),
     Match("m7", "text", T_Snow, 2, Undefined, 30),
     Match("m8", "image", T_Monsoon, 3, "https://img/8.png", 29),
     Match("m9", "text", T_Monsoon, 1, Undefined, 0),
     WithoutScore(Match("m10", "text", T_2024, 4, Undefined, 0)) >>

Indexes == {IndexPassages, IndexFigures, IndexMixed}

\* the entries of a ranked list at the chosen ranks, in rank order
RECURSIVE Pick(_, _, _)
Pick(ranked, ranks, i) ==
  IF i > Len(ranked) THEN <<>>
  ELSE (IF i \in ranks THEN <<ranked[i]>> ELSE <<>>) \o Pick(ranked, ranks, i + 1)

\* the replies index.query can give: at most MaxMatches (and at most topK) matches
SearchReplies ==
  UNION { { Pick(ranked, ranks, 1) :
              ranks \in { r \in SUBSET (1..Len(ranked)) :
                            Cardinality(r) <= MaxMatches /\ Cardinality(r) <= TopK } } :
          ranked \in Indexes }

\* a transcript of n turns as the chat client sends it
History(n) ==
  [i \in 1..n |-> [role |-> IF i % 2 = 1 THEN "user" ELSE "assistant",
                   content |-> <<Lit(ToString(i))>>,
                   attachments |-> (i % 2 = 0)]]

Question == "What causes glacier lake outburst floods?"

JsonObject(message, hasChatHistory, chatHistory) ==
  [kind |-> "object", message |-> message, hasChatHistory |-> hasChatHistory,
   chatHistory |-> chatHistory]

\* JSON values other than null and objects: destructuring them throws nothing and
\* finds neither message nor chatHistory
FieldlessKinds == {"number", "string", "boolean", "array"}

\* request bodies: not JSON, JSON null, another JSON value that is not an object, or
\* an object with or without its fields
Bodies ==
  { [JsonObject(Undefined, FALSE, <<>>) EXCEPT !.kind = k] :
      k \in {"invalid", "null"} \cup FieldlessKinds }
  \cup { JsonObject(m, FALSE, <<>>) : m \in {Undefined, "", Question} }
  \cup { JsonObject(m, TRUE, History(n)) : m \in {Undefined, "", Question}, n \in 0..MaxHistory }

\* const { message, chatHistory = [] } = ...
ChatHistoryOrDefault(b) == IF b.hasChatHistory THEN b.chatHistory ELSE <<>>

NoBody == [JsonObject(Undefined, FALSE, <<>>) EXCEPT !.kind = "none"]
NoResponse == [status |-> 0, body |-> [pending |-> "true"]]

(***************************************************************************)
(* POST: one action per stretch of the handler between two awaits          *)
(***************************************************************************)
Respond(status, json) ==
  /\ response' = [status |-> status, body |-> json]
  /\ pc' = "done"

\* an external call is issued and awaited
Issue(log, service) == Append(log, [service |-> service, outcome |-> "pending"])

\* the awaited call resolves ("ok") or rejects ("failed")
Settle(outcome) == [calls EXCEPT ![Len(calls)].outcome = outcome]

RejectUnreadableBody_badRequest(b) ==
  /\ pc = "idle"
  /\ b.kind \in {"invalid", "null"}
  /\ body' = b
  /\ Respond(400, MessageRequired)
  /\ UNCHANGED <<calls, matches, messages, filenameVars, clientVars, displayVars>>

\* request.json() rejects, or destructuring null throws: caught, 500
RejectUnreadableBody(b) ==
  /\ pc = "idle"
  /\ b.kind \in {"invalid", "null"}
  /\ body' = b
  /\ Respond(500, FailedToProcess)
  /\ UNCHANGED <<calls, matches, messages, filenameVars, clientVars, displayVars>>

\* if (!message) return 400
RejectMissingMessage(b) ==
  /\ pc = "idle"
  /\ b.kind \in {"object"} \cup FieldlessKinds
  /\ ~Truthy(b.message)
  /\ body' = b
  /\ Respond(400, MessageRequired)
  /\ UNCHANGED <<calls, matches, messages, filenameVars, clientVars, displayVars>>

\* Step 1: openai.embeddings.create is called
CallEmbedding(b) ==
  /\ pc = "idle"
  /\ b.kind = "object"
  /\ Truthy(b.message)
  /\ body' = b
  /\ calls' = Issue(calls, "embedding")
  /\ pc' = "embedding"
  /\ UNCHANGED <<matches, messages, response, filenameVars, clientVars, displayVars>>

\* the embedding call rejects (or its reply has no data[0]): caught, 500
EmbeddingFails ==
  /\ pc = "embedding"
  /\ calls' = Settle("failed")
  /\ Respond(500, FailedToProcess)
  /\ UNCHANGED <<body, matches, messages, filenameVars, clientVars, displayVars>>

\* Step 2: the embedding arrived, index.query is called
EmbeddingReturns ==
  /\ pc = "embedding"
  /\ calls' = Issue(Settle("ok"), "search")
  /\ pc' = "searching"
  /\ UNCHANGED <<body, matches, messages, response, filenameVars, clientVars, displayVars>>

\* the vector search rejects and the query is sent again
SearchFails_retry ==
  /\ pc = "searching"
  /\ calls' = Issue(Settle("failed"), "search")
  /\ UNCHANGED <<pc, body, matches, messages, response, filenameVars, clientVars, displayVars>>

\* the vector search rejects: caught, 500
SearchFails ==
  /\ pc = "searching"
  /\ calls' = Settle("failed")
  /\ Respond(500, FailedToProcess)
  /\ UNCHANGED <<body, matches, messages, filenameVars, clientVars, displayVars>>

SearchReturns_emptyStops(ms) ==
  /\ pc = "searching"
  /\ matches' = ms
  /\ IF ContextItems(ms) = <<>>
     THEN /\ messages' = <<>>
          /\ calls' = Settle("ok")
          /\ Respond(200, SuccessBody("Nothing relevant was found.", ms))
          /\ UNCHANGED body
     ELSE /\ messages' = BuildMessages(body.message, ChatHistoryOrDefault(body), ms)
          /\ calls' = Issue(Settle("ok"), "generation")
          /\ pc' = "generating"
          /\ UNCHANGED <<body, response>>
  /\ UNCHANGED <<filenameVars, clientVars, displayVars>>

\* Steps 3 and 4: the matches arrived, the prompt is built and the model is called
SearchReturns(ms) ==
  /\ pc = "searching"
  /\ matches' = ms
  /\ messages' = BuildMessages(body.message, ChatHistoryOrDefault(body), ms)
  /\ calls' = Issue(Settle("ok"), "generation")
  /\ pc' = "generating"
  /\ UNCHANGED <<body, response, filenameVars, clientVars, displayVars>>

\* the generation call rejects (or its reply has no choices[0]): caught, 500
GenerationFails ==
  /\ pc = "generating"
  /\ calls' = Settle("failed")
  /\ Respond(500, FailedToProcess)
  /\ UNCHANGED <<body, matches, messages, filenameVars, clientVars, displayVars>>

\* the completion arrived: sources are prepared and the 200 response is returned
GenerationReturns(content) ==
  /\ pc = "generating"
  /\ calls' = Settle("ok")
  /\ Respond(200, SuccessBody(content, matches))
  /\ UNCHANGED <<body, matches, messages, filenameVars, clientVars, displayVars>>

\* the next invocation of POST starts with nothing kept from the last one
NextRequest ==
  /\ pc = "done"
  /\ pc' = "idle"
  /\ body' = NoBody
  /\ calls' = <<>>
  /\ matches' = <<>>
  /\ messages' = <<>>
  /\ response' = NoResponse
  /\ UNCHANGED <<filenameVars, clientVars, displayVars>>

\* the chat client before anything was typed
ClientAtStart ==
  /\ transcript = <<>>
  /\ input = <<>>
  /\ isLoading = FALSE
  /\ requests = <<>>
  /\ sent = 0
  /\ lastEvent = "none"

\* no message is being rendered
DisplayAtStart ==
  /\ msgSources = <<>>
  /\ fromServer = FALSE
  /\ buttons = <<>>
  /\ opened = <<>>

Completions == {"Glacial lakes drain when ...", Undefined}

Init ==
  /\ pc = "idle"
  /\ body = NoBody
  /\ calls = <<>>
  /\ matches = <<>>
  /\ messages = <<>>
  /\ response = NoResponse
  /\ paperTitle = <<>>
  /\ pdfFile = <<>>
  /\ target = <<>>
  /\ ClientAtStart
  /\ DisplayAtStart

Next ==
  \/ \E b \in Bodies : RejectUnreadableBody(b)
  \/ \E b \in Bodies : RejectMissingMessage(b)
  \/ \E b \in Bodies : CallEmbedding(b)
  \/ EmbeddingFails
  \/ EmbeddingReturns
  \/ SearchFails
  \/ \E ms \in SearchReplies : SearchReturns(ms)
  \/ GenerationFails
  \/ \E content \in Completions : GenerationReturns(content)
  \/ NextRequest

Spec == Init /\ [][Next]_vars

(***************************************************************************)
(* Filenames: createPdfFilename and copy_papers.py applied to one title    *)
(***************************************************************************)
TitleChars == {"a", "7", " ", "\t", "-", "_", ":", "U+00E9"}

\* n letters
Letters(n) == [i \in 1..n |-> "a"]

RECURSIVE Tails(_)
Tails(n) ==
  IF n = 0 THEN {<<>>}
  ELSE Tails(n - 1) \cup { Append(t, c) : t \in { u \in Tails(n - 1) : Len(u) = n - 1 }, c \in TitleChars }

\* titles shorter than, as long as and longer than the 80 characters kept
TitleInputs == { Letters(n) \o t : n \in {0, 78, 79, 80}, t \in Tails(MaxTail) }

InitFilename ==
  /\ pc = "idle"
  /\ body = NoBody
  /\ calls = <<>>
  /\ matches = <<>>
  /\ messages = <<>>
  /\ response = NoResponse
  /\ paperTitle \in TitleInputs
  /\ pdfFile = <<>>
  /\ target = <<>>
  /\ ClientAtStart
  /\ DisplayAtStart

\* the chatbot derives the file name of the paper
DerivePdfFile ==
  /\ pdfFile = <<>>
  /\ pdfFile' = createPdfFilename(paperTitle)
  /\ UNCHANGED <<paperTitle, target, handlerVars, clientVars, displayVars>>

\* copy_papers.py computes the name it copies the paper to
CopyPaper ==
  /\ target = <<>>
  /\ target' = CopyPapersTarget(paperTitle)
  /\ UNCHANGED <<paperTitle, pdfFile, handlerVars, clientVars, displayVars>>

NextFilename == DerivePdfFile \/ CopyPaper

SpecFilename == InitFilename /\ [][NextFilename]_vars

(***************************************************************************)
(* Chat client (README, app/page.tsx): Home                                *)
(***************************************************************************)
MaxSubmits == 5          \* requests one client sends

ClientHistoryLimit == 6  \* messages.slice(-6)

\* input.trim()
RECURSIVE TrimStart(_)
TrimStart(s) == IF s # <<>> /\ IsWhitespace(Head(s)) THEN TrimStart(Tail(s)) ELSE s

RECURSIVE TrimEnd(_)
TrimEnd(s) ==
  IF s # <<>> /\ IsWhitespace(s[Len(s)]) THEN TrimEnd(SubSeq(s, 1, Len(s) - 1)) ELSE s

Trim(s) == TrimEnd(TrimStart(s))

\* the string made of the characters of s
RECURSIVE Join(_)
Join(s) == IF s = <<>> THEN "" ELSE Head(s) \o Join(Tail(s))

\* what the user can type into the textarea
TypedInputs == { <<>>, <<" ", "\t">>, <<" ", "W", "h", "y", "?", " ">> }

\* one of suggestedQuestions
SuggestedQuestion == <<"W", "h", "y", "?">>

\* Messages of the transcript. ask is not a field of Message: it numbers the request
\* a message belongs to. attachments tells whether images and sources are present.
UserMessage(text, ask) ==
  [role |-> "user", content |-> Str(text), attachments |-> FALSE,
   images |-> <<>>, sources |-> <<>>, ask |-> ask]

\* { role: 'assistant', content: data.message, images: data.images, sources: data.sources }
AnswerMessage(data, ask) ==
  [role |-> "assistant", content |-> Str(data.message), attachments |-> TRUE,
   images |-> data.images, sources |-> data.sources, ask |-> ask]

\* { role: 'assistant', content: 'Sorry, I encountered an error. Please try again.' }
ApologyMessage(ask) ==
  [role |-> "assistant",
   content |-> <<Lit("Sorry, I encountered an error. Please try again.")>>,
   attachments |-> FALSE, images |-> <<>>, sources |-> <<>>, ask |-> ask]

SubmitRefused_blankOnly == Trim(input) = <<>>

SubmitRefused_loadingOnly == isLoading

\* the guard of handleSubmit: if (!input.trim() || isLoading) return
SubmitRefused == Trim(input) = <<>> \/ isLoading

FetchBody_afterAppend ==
  JsonObject(Join(Trim(input)), TRUE,
             SliceLast(Append(transcript, UserMessage(Join(Trim(input)), sent + 1)),
                       ClientHistoryLimit))

\* body: JSON.stringify({ message: userMessage, chatHistory: messages.slice(-6) })
FetchBody == JsonObject(Join(Trim(input)), TRUE, SliceLast(transcript, ClientHistoryLimit))

\* handleSubmit, up to the await of fetch: a click on the submit button or Enter
handleSubmit ==
  /\ SubmitRefused \/ sent < MaxSubmits
  /\ IF SubmitRefused
     THEN /\ lastEvent' = "submit refused"
          /\ UNCHANGED <<transcript, input, isLoading, requests, sent>>
     ELSE /\ input' = <<>>
          /\ transcript' = Append(transcript, UserMessage(Join(Trim(input)), sent + 1))
          /\ isLoading' = TRUE
          /\ requests' = Append(requests, [body |-> FetchBody, ask |-> sent + 1])
          /\ sent' = sent + 1
          /\ lastEvent' = "request sent"
  /\ UNCHANGED <<handlerVars, filenameVars, displayVars>>

\* onChange of the textarea, which is disabled while isLoading
TypeInput(text) ==
  /\ ~isLoading
  /\ input' = text
  /\ lastEvent' = "typed"
  /\ UNCHANGED <<transcript, isLoading, requests, sent, handlerVars, filenameVars, displayVars>>

\* a suggested question is clicked; they are shown while the transcript is empty
ClickSuggestion ==
  /\ transcript = <<>>
  /\ input' = SuggestedQuestion
  /\ lastEvent' = "typed"
  /\ UNCHANGED <<transcript, isLoading, requests, sent, handlerVars, filenameVars, displayVars>>

\* the New Chat button, shown while the transcript is not empty
clearChat ==
  /\ transcript # <<>>
  /\ transcript' = <<>>
  /\ lastEvent' = "cleared"
  /\ UNCHANGED <<input, isLoading, requests, sent, handlerVars, filenameVars, displayVars>>

\* the oldest pending request reaches POST, which runs up to its first await or return
ServerReceives ==
  /\ requests # <<>>
  /\ pc = "idle"
  /\ LET b == Head(requests).body
     IN  IF b.kind \in {"invalid", "null"} THEN RejectUnreadableBody(b)
         ELSE IF ~Truthy(b.message) THEN RejectMissingMessage(b)
         ELSE CallEmbedding(b)

\* the invocation of POST is over
HandlerGone ==
  /\ pc' = "idle"
  /\ body' = NoBody
  /\ calls' = <<>>
  /\ matches' = <<>>
  /\ messages' = <<>>
  /\ response' = NoResponse

Settled_noFinally(message, event) ==
  /\ transcript' = Append(transcript, message)
  /\ isLoading' = (event # "answer shown")
  /\ requests' = Tail(requests)
  /\ lastEvent' = event
  /\ UNCHANGED <<input, sent>>

\* setMessages(prev => [...prev, message]) and, in finally, setIsLoading(false)
Settled(message, event) ==
  /\ transcript' = Append(transcript, message)
  /\ isLoading' = FALSE
  /\ requests' = Tail(requests)
  /\ lastEvent' = event
  /\ UNCHANGED <<input, sent>>

FetchRejects_retry ==
  /\ requests # <<>>
  /\ pc \in {"idle", "done"}
  /\ lastEvent' = "request failed"
  /\ UNCHANGED <<transcript, input, isLoading, requests, sent>>
  /\ HandlerGone
  /\ UNCHANGED <<filenameVars, displayVars>>

\* fetch rejects (network error) before or after the server handled the request
FetchRejects ==
  /\ requests # <<>>
  /\ pc \in {"idle", "done"}
  /\ Settled(ApologyMessage(Head(requests).ask), "request failed")
  /\ HandlerGone
  /\ UNCHANGED <<filenameVars, displayVars>>

ResponseArrives_ignoreStatus ==
  /\ requests # <<>>
  /\ pc = "done"
  /\ IF response.status \in 200..299
     THEN Settled(AnswerMessage(response.body, Head(requests).ask), "answer shown")
     ELSE Settled([ApologyMessage(Head(requests).ask) EXCEPT !.content = <<>>], "answer shown")
  /\ HandlerGone
  /\ UNCHANGED <<filenameVars, displayVars>>

\* the response arrives: if (!response.ok) throw; otherwise the answer is appended
ResponseArrives ==
  /\ requests # <<>>
  /\ pc = "done"
  /\ IF response.status \in 200..299
     THEN Settled(AnswerMessage(response.body, Head(requests).ask), "answer shown")
     ELSE Settled(ApologyMessage(Head(requests).ask), "request failed")
  /\ HandlerGone
  /\ UNCHANGED <<filenameVars, displayVars>>

\* the replies of the vector index while the client is watched: nothing found, or
\* two passages of one paper and a figure
ClientSearchReplies == { <<>>, Pick(IndexMixed, {2, 3, 5}, 1) }

Answer == "Glacial lakes drain when ..."

\* a step of the request in flight: of the server, or the settling of fetch
RequestProgress ==
  \/ ServerReceives
  \/ EmbeddingFails
  \/ EmbeddingReturns
  \/ SearchFails
  \/ \E ms \in ClientSearchReplies : SearchReturns(ms)
  \/ GenerationFails
  \/ GenerationReturns(Answer)
  \/ FetchRejects
  \/ ResponseArrives

NextClient ==
  \/ \E text \in TypedInputs : TypeInput(text)
  \/ ClickSuggestion
  \/ handleSubmit
  \/ clearChat
  \/ RequestProgress

SpecClient == Init /\ [][NextClient]_vars

\* every pending fetch settles: the server goes on and the promise resolves or rejects
SpecClientLive == SpecClient /\ WF_vars(RequestProgress)

(***************************************************************************)
(* Source panel of an assistant message (README, app/page.tsx)             *)
(***************************************************************************)
MaxShown == 3    \* entries of a source list that did not come from the server
MaxOpened == 2   \* documents opened from one panel

\* PAPER_LINKS: derived file name -> Google Drive link
PAPER_LINKS ==
  ("1-s20-S0048969723033569-main.pdf" :>
       "https://drive.google.com/file/d/1_S06TbyM4DOmkOP8np7hJiJLrxcBObjl/view?usp=sharing")
  @@ ("1-s20-S0048969724003875-main.pdf" :>
       "https://drive.google.com/file/d/1MJwfb74p1Qw9ZWTa82q3DjbzcCT3zOud/view?usp=sharing")
  @@ ("1-s20-S1470160X21003551-main.pdf" :>
       "https://drive.google.com/file/d/15mO3CYNOqNmIU5xi9xQujQxQFCqqClrZ/view?usp=sharing")
  @@ ("Analysing_climatic_variability_and_extremes_events_in_the_Himalayan_regions_focu.pdf" :>
       "https://drive.google.com/file/d/1Z9ko1qg1mZ2zNVb0jq8J5-0YeNvtxOMy/view?usp=sharing")
  @@ ("Assessing_climate_trends_in_the_Northwestern_Himalayas__a_comprehensive_analysis.pdf" :>
       "https://drive.google.com/file/d/1J1a4hWXUkqnNV-y77CjtpsvsQMuNu2TP/view?usp=sharing")
  @@ ("Glacial_lake_changes_and_the_identification_of_potentially_dangerous_glacial_lak.pdf" :>
       "https://drive.google.com/file/d/1F_bPGuhroc9Y_7rA4SmUqm_zkMgEILxo/view?usp=sharing")
  @@ ("PIIS2405844024168284.pdf" :>
       "https://drive.google.com/file/d/1VsLTVQggfZMYYtmVaG-FHxJ9LoSWy64p/view?usp=sharing")
  @@ ("SeasonalSpatio-TemporalVariabilityinTemperatureoverNorthKashmirHimalayasUsingSen.pdf" :>
       "https://drive.google.com/file/d/1OFBdesd2fTDlxGO4r1HsveTQs6ow_XKj/view?usp=sharing")
  @@ ("Water_Resources_Research_-_2023_-_Swarnkar_-_Increasing_Flood_Frequencies_Under_.pdf" :>
       "https://drive.google.com/file/d/1OX3ya6lB12MeLNb54jyyVH45_rH4Slle/view?usp=sharing")
  @@ ("atmosphere-12-01683-v2.pdf" :>
       "https://drive.google.com/file/d/1qBJppBPGeTz3Y9Ctk8e6S8qkOBLy3YOX/view?usp=sharing")
  @@ ("atmosphere-13-00764-v2.pdf" :>
       "https://drive.google.com/file/d/1eyat2fCuIdahgdEsFCR71dECjUTo94Pc/view?usp=sharing")
  @@ ("atmosphere-13-01866.pdf" :>
       "https://drive.google.com/file/d/1Rm3BoZvVolUdO1-HMpJc_73BrkQToJeM/view?usp=sharing")
  @@ ("atmosphere-13-02069-v2.pdf" :>
       "https://drive.google.com/file/d/1lU1xsTU_m18DaGuvWRfJ5WTPZuG2zoSO/view?usp=sharing")
  @@ ("atmosphere-14-00454.pdf" :>
       "https://drive.google.com/file/d/1YOYHg0i_fXMDlchBAnFHAYvvfr154XXb/view?usp=sharing")
  @@ ("atmosphere-14-00454_1.pdf" :>
       "https://drive.google.com/file/d/1xGlh6a73KXU2rNq0r_kyoTs7aMMFqvM5/view?usp=sharing")
  @@ ("fclim-05-1069994.pdf" :>
       "https://drive.google.com/file/d/10cw5APHAgHVx-f_8nGV43iPw0m1zRKiB/view?usp=sharing")
  @@ ("fenvs-10-1006399.pdf" :>
       "https://drive.google.com/file/d/1h-2MqxpytZV6Y8Jd_EWfNDjOewqr8N91/view?usp=sharing")
  @@ ("jatmosres2021105481.pdf" :>
       "https://drive.google.com/file/d/1NB1NNBZU2vLXjCz4kYZRZnyJwQGi78FT/view?usp=sharing")
  @@ ("jwc0142342.pdf" :>
       "https://drive.google.com/file/d/1ONln40D8Lj-BTRNM_6XoD7tHvepOIu0v/view?usp=sharing")
  @@ ("jwc2024141.pdf" :>
       "https://drive.google.com/file/d/1gtsqycutBTKbYO4_q51yZ1Yrpj4402CO/view?usp=sharing")
  @@ ("s00382-021-05984-6.pdf" :>
       "https://drive.google.com/file/d/1ArNErYheXH6Oyoy9Q3wqTU0JZxY-rBjf/view?usp=sharing")
  @@ ("s00382-021-06113-z.pdf" :>
       "https://drive.google.com/file/d/1jLfEqC9lAwZSBMBBMssUrwaPeHrmQcj7/view?usp=sharing")
  @@ ("s00704-022-04280-5.pdf" :>
       "https://drive.google.com/file/d/14DCB82FA4scZ8d6JE9WSIT01rQtFN4m8/view?usp=sharing")
  @@ ("s00704-023-04661-4.pdf" :>
       "https://drive.google.com/file/d/1WegEmM539_ImQEOpF18y73S0pVFPOPp4/view?usp=sharing")
  @@ ("s10113-023-02142-y.pdf" :>
       "https://drive.google.com/file/d/1mWW6nItJZHBPonlWI_XFUpNti0qHaqCd/view?usp=sharing")
  @@ ("s10661-021-09418-y.pdf" :>
       "https://drive.google.com/file/d/1mM8nyye7XkvCvBHzTXnWvqehzSO_ewSe/view?usp=sharing")
  @@ ("s10661-021-09689-5.pdf" :>
       "https://drive.google.com/file/d/10tNDtREVx1iDi8-QGL-qrM-_TEhDNATW/view?usp=sharing")
  @@ ("s10661-024-12693-0.pdf" :>
       "https://drive.google.com/file/d/1kkXyEONkaTnVBo1eeJGhEeKaSifcw46q/view?usp=sharing")
  @@ ("s10668-023-03476-7.pdf" :>
       "https://drive.google.com/file/d/1iNHUDX-bNl9iLOfWJCct4vpbErlyzTyf/view?usp=sharing")
  @@ ("s11069-022-05616-0.pdf" :>
       "https://drive.google.com/file/d/1d-yNfV877d3OA1-G1Yv3ftLCpWs_rKox/view?usp=sharing")
  @@ ("s11356-023-28263-9.pdf" :>
       "https://drive.google.com/file/d/1BHa22X1_e8Us_zYTIRtpZt1zQrSUYpro/view?usp=sharing")
  @@ ("s41477-024-01855-0.pdf" :>
       "https://drive.google.com/file/d/1-_7O8EGuzjUDl7gp0Qf5650VFOJEHsUc/view?usp=sharing")
  @@ ("s41561-022-01076-0.pdf" :>
       "https://drive.google.com/file/d/1RqmGpFRIYO-pireHkqXJeaexwiSzvYNN/view?usp=sharing")
  @@ ("s41561-023-01331-y.pdf" :>
       "https://drive.google.com/file/d/1kt1nrJpBAOuCFyZ7PF_CC-JumB_aznMA/view?usp=sharing")

Null == "<null>"
InheritedValue == "<inherited>"
TypeError == "<TypeError>"

\* PAPER_LINKS[pdfFilename]: an own entry, else what Object.prototype gives
PaperLink(name) ==
  IF name \in DOMAIN PAPER_LINKS THEN PAPER_LINKS[name]
  ELSE IF name \in {Join(k) : k \in ObjectPrototypeKeys} THEN InheritedValue
  ELSE Undefined

\* where pattern first occurs in s at or after position i; 0 if nowhere
RECURSIVE IndexOfFrom(_, _, _)
IndexOfFrom(s, pattern, i) ==
  IF i + Len(pattern) - 1 > Len(s) THEN 0
  ELSE IF SubSeq(s, i, i + Len(pattern) - 1) = pattern THEN i
  ELSE IndexOfFrom(s, pattern, i + 1)

\* s.replace(pattern, replacement) with a string pattern: the first occurrence only
ReplaceFirst(s, pattern, replacement) ==
  LET at == IndexOfFrom(s, pattern, 1)
  IN  IF at = 0 THEN s
      ELSE SubSeq(s, 1, at - 1) \o replacement \o SubSeq(s, at + Len(pattern), Len(s))

getPaperUrl_always(pdfFilename) ==
  LET driveLink == PaperLink(Join(pdfFilename))
  IN  IF driveLink = InheritedValue THEN TypeError
      ELSE IF Truthy(driveLink) THEN ReplaceFirst(driveLink, "/view", "/preview")
      ELSE "/papers/" \o Join(pdfFilename)

getPaperUrl(pdfFilename) ==
  LET driveLink == PaperLink(Join(pdfFilename))
  IN  IF driveLink = InheritedValue THEN TypeError
      ELSE IF Truthy(driveLink) THEN ReplaceFirst(driveLink, "/view", "/preview")
      ELSE Null

\* arr.findIndex(x => x.title === title), for a title that occurs in arr
FindIndex(arr, title) ==
  CHOOSE i \in DOMAIN arr :
    arr[i].title = title /\ \A j \in 1..(i - 1) : arr[j].title # title

RECURSIVE FilterFrom(_, _)
FilterFrom(arr, i) ==
  IF i > Len(arr) THEN <<>>
  ELSE (IF FindIndex(arr, arr[i].title) = i THEN <<arr[i]>> ELSE <<>>) \o FilterFrom(arr, i + 1)

DisplayedSources_unfiltered(arr) == arr

\* message.sources.filter((s, i, arr) => arr.findIndex(x => x.title === s.title) === i)
DisplayedSources(arr) == FilterFrom(arr, 1)

\* what SourceButton renders for one source
SourceButton(source) ==
  LET paperUrl == getPaperUrl(source.pdfFile)
  IN  [source |-> source, paperUrl |-> paperUrl, onClick |-> (paperUrl # Null)]

T_JWC == <<"j","w","c","0","1","4","2","3","4","2">>
T_Atmosphere == <<"a","t","m","o","s","p","h","e","r","e","-","1","4","-","0","0","4","5","4">>

SourceEntry(title, page) == [title |-> title, page |-> page, pdfFile |-> createPdfFilename(title)]

\* source lists that did not come from the server: titles may repeat
SourcePool ==
  { SourceEntry(T_JWC, 3), SourceEntry(T_JWC, 9), SourceEntry(T_GLOF, 5), SourceEntry(T_GLOF, 12) }

AnySourceLists == UNION { [1..n -> SourcePool] : n \in 1..MaxShown }

\* passages of papers with and without an entry in PAPER_LINKS
IndexLinked ==
  << Match("k1", "text", T_JWC, 3, Undefined, 90),
     Match("k2", "text", T_GLOF, 5, Undefined, 85),
     Match("k3", "text", T_JWC, 9, Undefined, 80),
     Match("k4", "text", T_Atmosphere, 2, Undefined, 70),
     Match("k5", "text", T_GLOF, 12, Undefined, 60),
     Match("k6", "text", T_Lakes, 1, Undefined, 50) >>

ServerSourceLists ==
  { ResponseSources(Pick(IndexLinked, ranks, 1)) : ranks \in SUBSET (1..Len(IndexLinked)) } \ {<<>>}

InitDisplay ==
  /\ pc = "idle"
  /\ body = NoBody
  /\ calls = <<>>
  /\ matches = <<>>
  /\ messages = <<>>
  /\ response = NoResponse
  /\ paperTitle = <<>>
  /\ pdfFile = <<>>
  /\ target = <<>>
  /\ ClientAtStart
  /\ \/ fromServer = TRUE /\ msgSources \in ServerSourceLists
     \/ fromServer = FALSE /\ msgSources \in AnySourceLists
  /\ buttons = <<>>
  /\ opened = <<>>

\* the panel "Source Papers" of the message is rendered
RenderSources ==
  /\ buttons = <<>>
  /\ buttons' = [i \in DOMAIN DisplayedSources(msgSources) |->
                   SourceButton(DisplayedSources(msgSources)[i])]
  /\ UNCHANGED <<msgSources, fromServer, opened, handlerVars, filenameVars, clientVars>>

\* the i-th button is clicked: handleClick if it has an onClick, else nothing happens
ClickSource(i) ==
  /\ i \in DOMAIN buttons
  /\ Len(opened) < MaxOpened
  /\ IF buttons[i].onClick /\ buttons[i].paperUrl # Null
     THEN opened' = Append(opened, [url |-> buttons[i].paperUrl, target |-> "_blank", button |-> i])
     ELSE opened' = opened
  /\ UNCHANGED <<msgSources, fromServer, buttons, handlerVars, filenameVars, clientVars>>

NextDisplay ==
  \/ RenderSources
  \/ \E i \in 1..(MaxShown + SourceLimit) : ClickSource(i)

SpecDisplay == InitDisplay /\ [][NextDisplay]_vars

(***************************************************************************)
(* What the claims speak about                                             *)
(***************************************************************************)
\* the request reached the generation call: the prompt exists
PromptBuilt == pc \in {"generating", "done"} /\ messages # <<>>

\* the handler answered 200
Succeeded == pc = "done" /\ response.status = 200

\* the tagged blocks of the context handed to the model, in order
RECURSIVE BlocksOf(_)
BlocksOf(tokens) ==
  IF tokens = <<>> THEN <<>>
  ELSE (IF Head(tokens).tag \in {"Paper", "Figure"} THEN <<Head(tokens)>> ELSE <<>>)
       \o BlocksOf(Tail(tokens))

ContextBlocks == BlocksOf(messages[Len(messages)].content)

\* matches[i] has metadata and a score strictly above 0.30
AboveFloor(i) ==
  matches[i].hasMetadata /\ matches[i].hasScore /\ matches[i].score > 30

\* C1: a match whose score is at most 0.30 (exactly 0.30 included) gives no block of
\* the context, no entry of images and no entry of sources: every block, image and
\* source comes from a match with metadata and a score above 0.30.
C1_FloorExcludes ==
  /\ PromptBuilt =>
       \A b \in 1..Len(ContextBlocks) :
         \E i \in 1..Len(matches) :
           /\ AboveFloor(i)
           /\ matches[i].content = ContextBlocks[b].content
           /\ matches[i].paper_title = ContextBlocks[b].source
  /\ Succeeded =>
       /\ \A k \in 1..Len(response.body.images) :
            \E i \in 1..Len(matches) :
              /\ AboveFloor(i)
              /\ matches[i].content = response.body.images[k].description
              /\ matches[i].score = response.body.images[k].score
       /\ \A k \in 1..Len(response.body.sources) :
            \E i \in 1..Len(matches) :
              /\ AboveFloor(i)
              /\ matches[i].content_type = "text"
              /\ matches[i].paper_title = response.body.sources[k].title
              /\ matches[i].page_number = response.body.sources[k].page

\* a 200 response to a search reply that held usable matches at exactly 0.30 and
\* without a score, next to matches that were shown
C1_Witness ==
  /\ Succeeded
  /\ \E i \in 1..Len(matches) :
       matches[i].hasMetadata /\ matches[i].hasScore /\ matches[i].score = 30
  /\ \E i \in 1..Len(matches) : matches[i].hasMetadata /\ ~matches[i].hasScore
  /\ Len(response.body.images) > 0

\* C2: an image match whose URL is absent or empty is never in images nor in the
\* figures section, whatever its score, and the request succeeds all the same.
C2_ImageNeedsUrl ==
  /\ PromptBuilt =>
       \A b \in 1..Len(ContextBlocks) :
         ContextBlocks[b].tag = "Figure" =>
           \E i \in 1..Len(matches) :
             /\ matches[i].content = ContextBlocks[b].content
             /\ matches[i].image_url \notin {Undefined, ""}
  /\ Succeeded =>
       \A k \in 1..Len(response.body.images) :
         /\ response.body.images[k].url \notin {Undefined, ""}
         /\ \E i \in 1..Len(matches) :
              /\ matches[i].content = response.body.images[k].description
              /\ matches[i].image_url = response.body.images[k].url
  /\ (pc = "done" /\ Len(calls) = 3 /\ \A c \in 1..3 : calls[c].outcome = "ok")
       => response.status = 200

\* a 200 response although the reply held an image above the floor without a URL and
\* one with an empty URL
C2_Witness ==
  /\ Succeeded
  /\ \E i \in 1..Len(matches) :
       AboveFloor(i) /\ matches[i].content_type = "image" /\ matches[i].image_url = Undefined
  /\ \E i \in 1..Len(matches) :
       AboveFloor(i) /\ matches[i].content_type = "image" /\ matches[i].image_url = ""
  /\ Len(response.body.images) > 0

\* matches[i] is a text match that survives filtering
SurvivingText(i) == AboveFloor(i) /\ matches[i].content_type = "text"

\* the rank of the first surviving text match that has the title of matches[i]
FirstRanked(i) ==
  CHOOSE j \in 1..Len(matches) :
    /\ SurvivingText(j) /\ matches[j].paper_title = matches[i].paper_title
    /\ \A h \in 1..(j - 1) :
         ~(SurvivingText(h) /\ matches[h].paper_title = matches[i].paper_title)

\* C3: for surviving text matches that share a paper title, sources holds exactly one
\* entry with that title, and its page is the page of the first-ranked of them.
C3_OneSourcePerTitle ==
  Succeeded =>
    \A i \in 1..Len(matches) :
      SurvivingText(i) =>
        /\ Cardinality({ k \in 1..Len(response.body.sources) :
                           response.body.sources[k].title = matches[i].paper_title }) = 1
        /\ \A k \in 1..Len(response.body.sources) :
             response.body.sources[k].title = matches[i].paper_title
               => response.body.sources[k].page = matches[FirstRanked(i)].page_number

\* C4: a 200 response carries at most 4 images and at most 6 sources.
C4_ListLimits ==
  Succeeded => Len(response.body.images) <= 4 /\ Len(response.body.sources) <= 6

\* a 200 response to a reply with more than six distinct surviving paper titles
C4_Witness ==
  /\ Succeeded
  /\ Cardinality({ matches[i].paper_title : i \in { j \in 1..Len(matches) : SurvivingText(j) } }
                 \ {T_constructor}) > 6
  /\ Len(response.body.sources) = 6

\* C5: a request whose message is missing or empty is answered 400 with
\* {error: "Message is required"}, and no external call is made for it.
C5_MissingMessage ==
  (body.kind = "object" /\ body.message \in {Undefined, ""}) =>
    /\ pc = "done"
    /\ response = [status |-> 400, body |-> [error |-> "Message is required"]]
    /\ calls = <<>>

\* the 400 answer to a request with an empty message and a chat history
C5_Witness ==
  /\ pc = "done"
  /\ body.kind = "object" /\ body.message = "" /\ Len(body.chatHistory) > 0
  /\ response.status = 400

\* C6: when one of the three external calls fails the answer is 500 with the generic
\* error text alone: the same body whichever stage failed, with no message, images or
\* sources field.
C6_OpaqueFailure ==
  (\E c \in 1..Len(calls) : calls[c].outcome = "failed") =>
    /\ pc = "done"
    /\ response.status = 500
    /\ DOMAIN response.body = {"error"}
    /\ response.body.error = "Failed to process your request. Please try again."

\* the 500 answer after the generation call failed on a prompt with context
C6_Witness ==
  /\ pc = "done"
  /\ Len(calls) = 3 /\ calls[3].outcome = "failed"
  /\ Len(ContextItems(matches)) > 0
  /\ response.status = 500

\* C7: the calls of one request are a prefix of embedding, search, generation, each
\* made at most once; every call but the last has returned successfully, so nothing
\* is called after a failure and nothing is called again.
C7_CallOrder ==
  /\ Len(calls) <= 3
  /\ \A c \in 1..Len(calls) : calls[c].service = <<"embedding", "search", "generation">>[c]
  /\ \A c \in 1..(Len(calls) - 1) : calls[c].outcome = "ok"
  /\ (pc = "done" /\ calls # <<>>) => calls[Len(calls)].outcome \in {"ok", "failed"}
  /\ (pc # "done" /\ calls # <<>>) => calls[Len(calls)].outcome = "pending"

\* the request ended after the search failed: two calls, no generation call
C7_Witness ==
  /\ pc = "done"
  /\ Len(calls) = 2 /\ calls[2].service = "search" /\ calls[2].outcome = "failed"

\* C8: the generation call receives exactly the last min(6, n) turns of chatHistory,
\* in order, each with its role and content, between the system turn and the final
\* user turn.
C8_LastSixTurns ==
  PromptBuilt =>
    LET history == IF body.hasChatHistory THEN body.chatHistory ELSE <<>>
        n == Len(history)
        k == IF n < 6 THEN n ELSE 6
    IN  /\ Len(messages) = k + 2
        /\ \A j \in 1..k :
             /\ messages[1 + j].role = history[n - k + j].role
             /\ messages[1 + j].content = history[n - k + j].content
             /\ DOMAIN messages[1 + j] = {"role", "content"}

\* a prompt built for a request whose history has more than six turns
C8_Witness ==
  /\ PromptBuilt
  /\ body.hasChatHistory /\ Len(body.chatHistory) > 6
  /\ Len(messages) = 8

\* the characters of a title that stay as they are, and those that count as whitespace
StaysInName(c) == c \in LowerCase \/ c \in UpperCase \/ c \in Digits \/ c = "-"
CountsAsSpace(c) == c \in {" ", "\t"}

\* the stem read off paperTitle in one pass from position i on: a letter, digit or
\* hyphen is written as it is; a whitespace character is written as one underscore
\* unless the last character that was not removed was whitespace too; any other
\* character is removed; nothing is written once 80 characters are there
RECURSIVE StemFrom(_, _, _)
StemFrom(i, afterSpace, written) ==
  IF i > Len(paperTitle) \/ Len(written) = 80 THEN written
  ELSE IF StaysInName(paperTitle[i])
       THEN StemFrom(i + 1, FALSE, Append(written, paperTitle[i]))
       ELSE IF CountsAsSpace(paperTitle[i])
            THEN StemFrom(i + 1, TRUE, IF afterSpace THEN written ELSE Append(written, "_"))
            ELSE StemFrom(i + 1, afterSpace, written)

\* C9: the derived name is the title without the characters that are not letters,
\* digits, whitespace or hyphens, with each whitespace run then turned into one
\* underscore, cut to 80 characters, followed by ".pdf"; so its stem has at most 80
\* characters, all of them letters, digits, underscores or hyphens.
C9_FilenameRules ==
  pdfFile # <<>> =>
    LET stemLen == Len(pdfFile) - 4
    IN  /\ stemLen \in 0..80
        /\ SubSeq(pdfFile, stemLen + 1, Len(pdfFile)) = <<".", "p", "d", "f">>
        /\ \A k \in 1..stemLen :
             pdfFile[k] \in LowerCase \/ pdfFile[k] \in UpperCase
               \/ pdfFile[k] \in Digits \/ pdfFile[k] \in {"_", "-"}
        /\ SubSeq(pdfFile, 1, stemLen) = StemFrom(1, FALSE, <<>>)

\* the name of a title of more than 80 characters in which a removed character
\* stands between two spaces: the stem is cut to 80 and ends with one underscore
C9_Witness ==
  /\ pdfFile # <<>>
  /\ Len(paperTitle) > 80
  /\ \E i \in 1..(Len(paperTitle) - 2) :
       paperTitle[i] = " " /\ paperTitle[i + 1] = ":" /\ paperTitle[i + 2] = " "
  /\ Len(pdfFile) = 84
  /\ pdfFile[80] = "_"

\* C10: the name copy_papers.py gives the copy of a paper is the name
\* createPdfFilename derives for the same title.
C10_ScriptSameName ==
  (pdfFile # <<>> /\ target # <<>>) => target = pdfFile

(***************************************************************************)
(* Claims about the chat client                                            *)
(***************************************************************************)
UserTurns(t) == Cardinality({i \in DOMAIN t : t[i].role = "user"})

\* C11: a client has at most one request in flight, and it is loading exactly while
\* one is; no step taken while a request is pending (a submit among them) sends a
\* request or appends a user message.
C11_OneInFlight ==
  /\ [](Len(requests) <= 1 /\ (isLoading <=> requests # <<>>))
  /\ [][isLoading => /\ sent' = sent
                     /\ Len(requests') <= Len(requests)
                     /\ UserTurns(transcript') <= UserTurns(transcript)]_vars

\* a submit arrived with a question in the input while a request was pending
C11_Witness ==
  /\ isLoading
  /\ Len(requests) = 1
  /\ Trim(input) # <<>>
  /\ lastEvent = "submit refused"

\* C12: idle -> awaiting-response -> idle. A submit with non-blank input made while
\* idle sets isLoading, and a request is only ever sent by such a step; while the
\* pending fetch makes progress, a loading client eventually stops loading, after a
\* success as well as after a failure; it is never loading with no request pending.
C12_BackToIdle ==
  /\ [][(~isLoading /\ Trim(input) # <<>> /\ sent' = sent + 1) => isLoading']_vars
  /\ [][sent' # sent => (~isLoading /\ Trim(input) # <<>> /\ isLoading')]_vars
  /\ isLoading ~> ~isLoading
  /\ [](isLoading => requests # <<>>)

\* the client is idle again after a failed request that followed an answered one
C12_Witness ==
  /\ ~isLoading
  /\ requests = <<>>
  /\ lastEvent = "request failed"
  /\ \E i \in DOMAIN transcript : transcript[i].attachments

\* the step in which the pending request fails: the catch branch of handleSubmit runs
FailureStep == requests # <<>> /\ lastEvent' = "request failed"

\* C13: a request that fails (fetch rejects, or the status is not 2xx) appends the
\* apology for that request, once, settles the request and sends nothing; a response
\* with a status outside 2xx always ends this way; no request ever has two assistant
\* messages in the transcript.
C13_OneApology ==
  /\ [][FailureStep => /\ transcript' = Append(transcript, ApologyMessage(Head(requests).ask))
                       /\ transcript'[Len(transcript')].role = "assistant"
                       /\ requests' = Tail(requests)
                       /\ sent' = sent]_vars
  /\ [][(pc = "done" /\ pc' = "idle" /\ response.status \notin 200..299) => FailureStep]_vars
  /\ [](\A i, j \in DOMAIN transcript :
          (/\ transcript[i].role = "assistant"
           /\ transcript[j].role = "assistant"
           /\ transcript[i].ask = transcript[j].ask) => i = j)

\* a request has just failed and its apology closes the transcript
C13_Witness ==
  /\ lastEvent = "request failed"
  /\ requests = <<>>
  /\ transcript # <<>>
  /\ transcript[Len(transcript)] = ApologyMessage(sent)

\* the step in which the pending request settles, one way or the other
SettleStep == requests # <<>> /\ requests' = Tail(requests)

IsApology(m) ==
  /\ m.role = "assistant"
  /\ m.content = <<Lit("Sorry, I encountered an error. Please try again.")>>
  /\ ~m.attachments
  /\ m.images = <<>>
  /\ m.sources = <<>>

\* m shows the response the server holds for the pending request, whole
IsAnswerOf(m, resp) ==
  /\ resp.status = 200
  /\ m.role = "assistant"
  /\ m.attachments
  /\ m.content = (IF resp.body.message = "" THEN <<>> ELSE <<Lit(resp.body.message)>>)
  /\ m.images = resp.body.images
  /\ m.sources = resp.body.sources

\* C14: no partial success. The step that settles a request appends one message for
\* that request: the answer with the images and sources of the same response, or the
\* apology with neither; when the response is an error, or none came, it is the
\* apology. Every assistant message of the transcript is of one of the two forms.
C14_NoPartialSuccess ==
  /\ [][SettleStep =>
          LET m == transcript'[Len(transcript')]
          IN  /\ transcript' = Append(transcript, m)
              /\ m.ask = Head(requests).ask
              /\ \/ pc = "done" /\ IsAnswerOf(m, response)
                 \/ IsApology(m)
              /\ (pc # "done" \/ response.status # 200) => IsApology(m)]_vars
  /\ [](\A i \in DOMAIN transcript :
          transcript[i].role = "assistant" =>
            \/ IsApology(transcript[i])
            \/ transcript[i].attachments)

\* an answer with its figure and sources is shown below the apology of a failed request
C14_Witness ==
  /\ lastEvent = "answer shown"
  /\ Len(transcript) >= 4
  /\ transcript[Len(transcript)].images # <<>>
  /\ transcript[Len(transcript)].sources # <<>>
  /\ IsApology(transcript[Len(transcript) - 2])

(***************************************************************************)
(* Claims about the source panel                                           *)
(***************************************************************************)
ShownSources == [i \in DOMAIN buttons |-> buttons[i].source]

\* the positions of msgSources whose title does not occur at an earlier position
FirstOccurrences ==
  {i \in DOMAIN msgSources : \A j \in 1..(i - 1) : msgSources[j].title # msgSources[i].title}

\* the n-th smallest member of FirstOccurrences
NthFirstOccurrence(n) ==
  CHOOSE i \in FirstOccurrences : Cardinality({j \in FirstOccurrences : j <= i}) = n

\* C15: the rendered source list shows each title once, consists of the first
\* occurrences of the titles of the message's sources in their order, equals the
\* message's list when that list came from the server, and is a fixed point of the
\* display filter.
C15_DisplayDedup ==
  buttons # <<>> =>
    /\ \A i, j \in DOMAIN ShownSources :
         ShownSources[i].title = ShownSources[j].title => i = j
    /\ Len(ShownSources) = Cardinality(FirstOccurrences)
    /\ \A n \in DOMAIN ShownSources : ShownSources[n] = msgSources[NthFirstOccurrence(n)]
    /\ fromServer => ShownSources = msgSources
    /\ DisplayedSources(ShownSources) = ShownSources

\* a list whose third entry repeats the title of the first has been rendered
C15_Witness ==
  /\ ~fromServer
  /\ Len(msgSources) = 3
  /\ msgSources[1].title # msgSources[2].title
  /\ msgSources[3].title = msgSources[1].title
  /\ msgSources[3] # msgSources[1]
  /\ Len(buttons) = 2

\* the link a button must carry: the entry of the table for its file name, with the
\* first "/view" turned into "/preview"
IsPreviewOf(url, link) ==
  \E k \in 1..Len(link) :
    /\ SubSeq(link, k, k + 4) = "/view"
    /\ \A h \in 1..(k - 1) : SubSeq(link, h, h + 4) # "/view"
    /\ url = SubSeq(link, 1, k - 1) \o "/preview" \o SubSeq(link, k + 5, Len(link))

ButtonFile(i) == Join(buttons[i].source.pdfFile)

\* C16: a button has a click action exactly when its source's pdfFile is a key of
\* PAPER_LINKS, and then its link is that entry with "/view" replaced by "/preview";
\* whatever is opened is the link of the clicked button, in a new browsing context;
\* a click on a button without an entry opens nothing.
C16_OpensLinkedOnly ==
  /\ [](\A i \in DOMAIN buttons :
          /\ buttons[i].onClick <=> ButtonFile(i) \in DOMAIN PAPER_LINKS
          /\ buttons[i].onClick => IsPreviewOf(buttons[i].paperUrl, PAPER_LINKS[ButtonFile(i)])
          /\ ~buttons[i].onClick => buttons[i].paperUrl = Null)
  /\ [][opened' # opened =>
          \E i \in DOMAIN buttons :
            /\ ButtonFile(i) \in DOMAIN PAPER_LINKS
            /\ IsPreviewOf(buttons[i].paperUrl, PAPER_LINKS[ButtonFile(i)])
            /\ opened' = Append(opened, [url |-> buttons[i].paperUrl, target |-> "_blank",
                                         button |-> i])]_vars
  /\ [](\A n \in DOMAIN opened : ButtonFile(opened[n].button) \in DOMAIN PAPER_LINKS)

\* a paper of the table has been opened from a panel that also lists one without a link
C16_Witness ==
  /\ opened # <<>>
  /\ opened[1].url =
       "https://drive.google.com/file/d/1ONln40D8Lj-BTRNM_6XoD7tHvepOIu0v/preview?usp=sharing"
  /\ \E i \in DOMAIN buttons : ~buttons[i].onClick

(***************************************************************************)
(* Claims about the prompt and the context                                 *)
(***************************************************************************)
FinalTurn == messages[Len(messages)]

\* C18: the conversation handed to the model has between 2 and 8 turns: first the
\* system turn with the fixed instructions and no other system turn, then the history
\* turns (at most 6), last a user turn that opens with the context, whose blocks all
\* come before the question marker, followed by the question of the request.
C18_ConversationShape ==
  PromptBuilt =>
    LET n == Len(messages)
        last == FinalTurn.content
    IN  /\ n \in 2..8
        /\ messages[1] = [role |-> "system", content |-> systemPrompt]
        /\ \A j \in 2..(n - 1) : messages[j].role \in {"user", "assistant"}
        /\ n - 2 <= 6
        /\ FinalTurn.role = "user"
        /\ last[1] = Lit("Research Context:")
        /\ \E q \in 2..(Len(last) - 1) :
             /\ last[q] = Lit("User Question:")
             /\ last[q + 1] = Lit(body.message)
             /\ \A k \in 1..Len(last) : last[k].tag \in {"Paper", "Figure"} => k < q
             /\ \A k \in 1..Len(last) :
                  last[k] \in {Lit("User Question:"), Lit(body.message)} => k >= q

\* a conversation of eight turns whose final turn carries several context blocks
C18_Witness ==
  /\ PromptBuilt
  /\ Len(messages) = 8
  /\ Len(ContextBlocks) >= 2
  /\ FinalTurn.content[Len(FinalTurn.content) - 1] = Lit(Question)

\* the ranks of the matches that survive as text items, and as image items with a URL
SurvivingTextRanks == {i \in DOMAIN matches : AboveFloor(i) /\ matches[i].content_type = "text"}

SurvivingImageRanks ==
  {i \in DOMAIN matches :
     /\ AboveFloor(i)
     /\ matches[i].content_type = "image"
     /\ matches[i].image_url \notin {Undefined, ""}}

\* the n-th smallest member of a set of ranks
NthRank(ranks, n) == CHOOSE i \in ranks : Cardinality({j \in ranks : j <= i}) = n

BlockFor(tag, i) ==
  [tag |-> tag, source |-> matches[i].paper_title, page |-> matches[i].page_number,
   content |-> matches[i].content]

\* C19: the context of the final turn holds one Paper block per surviving text match
\* in rank order, then one Figure block per surviving image match with a URL in rank
\* order, and nothing else tagged; the text header stands right before the first
\* Paper block and the figure header right before the first Figure block, each
\* present exactly when its section has a block.
C19_ContextOrder ==
  PromptBuilt =>
    LET nText == Cardinality(SurvivingTextRanks)
        nImage == Cardinality(SurvivingImageRanks)
        last == FinalTurn.content
        textEnd == IF nText > 0 THEN 2 + nText ELSE 1
    IN  /\ Len(ContextBlocks) = nText + nImage
        /\ \A n \in 1..nText :
             ContextBlocks[n] = BlockFor("Paper", NthRank(SurvivingTextRanks, n))
        /\ \A n \in 1..nImage :
             ContextBlocks[nText + n] = BlockFor("Figure", NthRank(SurvivingImageRanks, n))
        /\ {k \in DOMAIN last : last[k] = TextHeader} = (IF nText > 0 THEN {2} ELSE {})
        /\ {k \in DOMAIN last : last[k] = FigureHeader}
             = (IF nImage > 0 THEN {textEnd + 1} ELSE {})
        /\ \A n \in 1..nText : last[2 + n] = ContextBlocks[n]
        /\ \A n \in 1..nImage : last[textEnd + 1 + n] = ContextBlocks[nText + n]

\* a context with two Paper blocks and a Figure block, built from a reply in which the
\* figure is ranked between the two passages
C19_Witness ==
  /\ PromptBuilt
  /\ Cardinality(SurvivingTextRanks) >= 2
  /\ Cardinality(SurvivingImageRanks) >= 1
  /\ \E i \in SurvivingTextRanks, j \in SurvivingImageRanks, k \in SurvivingTextRanks :
       i < j /\ j < k

\* contextItems of the request in hand
contextItems == ContextItems(matches)

SurvivingRanks == {i \in DOMAIN matches : AboveFloor(i)}

\* C20: contextItems has one item per match with metadata and a score above 0.30, in
\* rank order: the n-th item carries the kind, content, paper title, page, image URL
\* and score of the n-th such match, and there are as many items as such matches.
C20_OneItemPerMatch ==
  PromptBuilt =>
    /\ Len(contextItems) = Cardinality(SurvivingRanks)
    /\ \A n \in DOMAIN contextItems :
         LET match == matches[NthRank(SurvivingRanks, n)]
         IN  /\ contextItems[n].type = match.content_type
             /\ contextItems[n].content = match.content
             /\ contextItems[n].source = match.paper_title
             /\ contextItems[n].page = match.page_number
             /\ contextItems[n].imageUrl = match.image_url
             /\ contextItems[n].score = match.score

\* the reply mixes matches that survive (a passage, a figure, a table) with matches
\* that do not (no metadata, a score at the floor)
C20_Witness ==
  /\ PromptBuilt
  /\ Len(contextItems) >= 3
  /\ Len(contextItems) < Len(matches)
  /\ \E n \in DOMAIN contextItems : contextItems[n].type \notin {"text", "image"}
  /\ \E i \in DOMAIN matches : ~matches[i].hasMetadata
  /\ \E i \in DOMAIN matches : matches[i].hasMetadata /\ matches[i].score = 30

(***************************************************************************)
(* Claims about sources, images and the context (continued)                *)
(***************************************************************************)
\* C21: every entry of sources carries the title and the page of one surviving text
\* match; a title that only matches of another kind carry (a figure, say) has no
\* entry in sources, whether or not its figure is returned in images.
C21_SourcesFromText ==
  Succeeded =>
    /\ \A k \in DOMAIN response.body.sources :
         \E i \in DOMAIN matches :
           /\ AboveFloor(i)
           /\ matches[i].content_type = "text"
           /\ matches[i].paper_title = response.body.sources[k].title
           /\ matches[i].page_number = response.body.sources[k].page
    /\ \A i \in DOMAIN matches :
         (/\ AboveFloor(i)
          /\ matches[i].content_type # "text"
          /\ \A j \in DOMAIN matches :
               (AboveFloor(j) /\ matches[j].content_type = "text")
                 => matches[j].paper_title # matches[i].paper_title)
           => \A k \in DOMAIN response.body.sources :
                response.body.sources[k].title # matches[i].paper_title

\* the figure of a paper is returned in images while sources lists only another paper
C21_Witness ==
  /\ Succeeded
  /\ response.body.sources # <<>>
  /\ \E n \in DOMAIN response.body.images :
       \A k \in DOMAIN response.body.sources :
         response.body.sources[k].title # response.body.images[n].source

(***************************************************************************)
(* Claims about the chat client (continued)                                *)
(***************************************************************************)
\* C22: the request a submit sends carries the trimmed input as its message and, as
\* its chat history, the last min(6, n) messages of the transcript as it was before
\* the submit, none of which is the message of the question being asked; the turns
\* the server puts between the system turn and the final turn are those messages,
\* all of earlier requests, and the question stands in the final turn.
C22_HistoryBeforeQuestion ==
  /\ [][sent' = sent + 1 =>
          LET n == Len(transcript)
              k == IF n < 6 THEN n ELSE 6
              request == requests'[Len(requests')]
              history == request.body.chatHistory
          IN  /\ request.ask = sent + 1
              /\ request.body.message = Join(Trim(input))
              /\ Len(history) = k
              /\ \A j \in 1..k : history[j] = transcript[n - k + j]
              /\ \A j \in 1..k : history[j].ask # sent + 1
              /\ transcript'[Len(transcript')].ask = sent + 1]_vars
  /\ []((PromptBuilt /\ requests # <<>>) =>
          LET request == Head(requests)
              history == request.body.chatHistory
          IN  /\ Len(messages) = Len(history) + 2
              /\ \A j \in DOMAIN history :
                   /\ messages[1 + j].role = history[j].role
                   /\ messages[1 + j].content = history[j].content
                   /\ history[j].ask < request.ask
              /\ \E q \in DOMAIN FinalTurn.content :
                   FinalTurn.content[q] = Lit(request.body.message))

\* the prompt for a question asked when the transcript held more than six messages
C22_Witness ==
  /\ PromptBuilt
  /\ requests # <<>>
  /\ Len(transcript) >= 8
  /\ transcript[Len(transcript)].ask = Head(requests).ask
  /\ Len(Head(requests).body.chatHistory) = 6
  /\ Len(messages) = 8

\* C23: in the transcript every assistant message stands right after the user message
\* of the request it answers, also when New Chat is pressed while the request is
\* pending.
C23_PairedTurns ==
  \A i \in DOMAIN transcript :
    transcript[i].role = "assistant" =>
      /\ i > 1
      /\ transcript[i - 1].role = "user"
      /\ transcript[i - 1].ask = transcript[i].ask

(***************************************************************************)
(* Claims about the handler (continued)                                    *)
(***************************************************************************)
\* C24 as stated: a body that is not valid JSON, or is JSON but not an object, is
\* answered 500 with the generic error body, and no external service is called.
C24_NonObjectIs500 ==
  (pc = "done" /\ body.kind \in {"invalid", "null", "number", "string", "boolean", "array"}) =>
    /\ response.status = 500
    /\ response.body = [error |-> "Failed to process your request. Please try again."]
    /\ calls = <<>>

\* C24: a body that is not valid JSON, or is JSON null, is answered 500 with the
\* generic error body; a body that is a JSON number, string, boolean or array is
\* answered 400 with "Message is required"; no external service is called for either.
C24_UnreadableBody ==
  /\ body.kind \in {"invalid", "null"} =>
       /\ pc = "done"
       /\ response.status = 500
       /\ response.body = [error |-> "Failed to process your request. Please try again."]
       /\ calls = <<>>
  /\ body.kind \in {"number", "string", "boolean", "array"} =>
       /\ pc = "done"
       /\ response.status = 400
       /\ response.body = [error |-> "Message is required"]
       /\ calls = <<>>

\* the 500 answer to the body null
C24_Witness ==
  /\ pc = "done"
  /\ body.kind = "null"
  /\ response.status = 500
  /\ calls = <<>>

\* the ranks at which a surviving text match brings a paper title for the first time
FirstSeenRanks ==
  {i \in DOMAIN matches :
     /\ SurvivingText(i)
     /\ \A h \in 1..(i - 1) :
          ~(SurvivingText(h) /\ matches[h].paper_title = matches[i].paper_title)}

\* C25: sources lists the first 6 distinct paper titles of the surviving text matches
\* in rank order, whatever the titles are.
C25_FirstSeenOrder ==
  Succeeded =>
    LET n == Cardinality(FirstSeenRanks)
        k == IF n < 6 THEN n ELSE 6
    IN  /\ Len(response.body.sources) = k
        /\ \A j \in 1..k :
             response.body.sources[j].title = matches[NthRank(FirstSeenRanks, j)].paper_title

FigureBlocks == SelectSeq(ContextBlocks, LAMBDA b : b.tag = "Figure")
PaperBlocks == SelectSeq(ContextBlocks, LAMBDA b : b.tag = "Paper")

\* C26: the context is not cut to the display limits: it has a Paper block for every
\* surviving text match and a Figure block for every surviving image match with a
\* URL; the images of the response are the first min(4, n) of the n Figure blocks,
\* in the same order.
C26_ContextNotTruncated ==
  Succeeded =>
    LET n == Len(FigureBlocks)
        k == IF n < 4 THEN n ELSE 4
    IN  /\ n = Cardinality(SurvivingImageRanks)
        /\ Len(PaperBlocks) = Cardinality(SurvivingTextRanks)
        /\ Len(response.body.images) = k
        /\ \A j \in 1..k :
             /\ response.body.images[j].source = FigureBlocks[j].source
             /\ response.body.images[j].page = FigureBlocks[j].page
             /\ response.body.images[j].description = FigureBlocks[j].content

\* more figures and more papers are described to the model than are returned
C26_Witness ==
  /\ Succeeded
  /\ Len(FigureBlocks) > 4
  /\ Len(response.body.images) = 4
  /\ \E b \in DOMAIN FigureBlocks :
       \A j \in DOMAIN response.body.images :
         response.body.images[j].description # FigureBlocks[b].content

\* C27: in one response, source entries with different titles have different pdfFile
\* values.
C27_DistinctFilenames ==
  Succeeded =>
    \A j, k \in DOMAIN response.body.sources :
      response.body.sources[j].title # response.body.sources[k].title
        => response.body.sources[j].pdfFile # response.body.sources[k].pdfFile

\* the search returned and none of its matches has metadata and a score above 0.30
NothingSurvives == pc \in {"generating", "done"} /\ Len(calls) >= 3 /\ SurvivingRanks = {}

\* C28: when no match survives, the model is still called, once, with a final turn
\* that holds the frame and the question and neither header nor block; when the model
\* has replied the answer is 200 with its text (or the empty string), an empty images
\* list and an empty sources list.
C28_EmptyContext ==
  /\ (pc \in {"generating", "done"} /\ Len(calls) >= 2 /\ calls[2].outcome = "ok")
       => /\ Len(calls) = 3
          /\ calls[3].service = "generation"
          /\ Cardinality({c \in DOMAIN calls : calls[c].service = "generation"}) = 1
  /\ NothingSurvives =>
       /\ FinalTurn.content =
            << Lit("Research Context:"), Lit("User Question:"), Lit(body.message),
               Lit("Answer the user's question using only the research context above.") >>
       /\ (pc = "done" /\ calls[3].outcome = "ok") =>
            /\ response.status = 200
            /\ DOMAIN response.body = {"message", "images", "sources"}
            /\ response.body.message \in (Completions \ {Undefined}) \cup {""}
            /\ response.body.images = <<>>
            /\ response.body.sources = <<>>

\* a 200 answer to a reply whose matches are all at or below the floor or without
\* metadata
C28_Witness ==
  /\ Succeeded
  /\ NothingSurvives
  /\ Len(matches) >= 3
  /\ \E i \in DOMAIN matches : ~matches[i].hasMetadata
  /\ \E i \in DOMAIN matches : matches[i].hasMetadata /\ matches[i].score = 30
  /\ response.body.message # ""

\* C29: a request the client sends carries the trimmed input, which is not empty; a
\* submit with an empty or all-whitespace input sends nothing and leaves the
\* transcript and the loading state as they were; no request of the client is
\* answered 400.
C29_NonEmptyMessage ==
  /\ [][sent' = sent + 1 =>
          /\ Trim(input) # <<>>
          /\ requests'[Len(requests')].body.message = Join(Trim(input))
          /\ requests'[Len(requests')].body.message \notin {"", Undefined}]_vars
  /\ [][(Trim(input) = <<>> /\ lastEvent' \in {"submit refused", "request sent"})
          => UNCHANGED <<transcript, isLoading, requests, sent>>]_vars
  /\ [](\A r \in DOMAIN requests :
          /\ requests[r].body.kind = "object"
          /\ requests[r].body.message \notin {"", Undefined})
  /\ [](response.status # 400)

\* a submit of an input of whitespace only was refused while the client was idle, and
\* an earlier question went out trimmed
C29_Witness ==
  /\ lastEvent = "submit refused"
  /\ ~isLoading
  /\ input = <<" ", "\t">>
  /\ sent >= 1
  /\ transcript[1].content = <<Lit("Why?")>>

(***************************************************************************)
(* Claims about file names (continued)                                     *)
(***************************************************************************)
\* the characters of a key of PAPER_LINKS
KeyChars(key) == [k \in 1..Len(key) |-> SubSeq(key, k, k)]

HasDoubleUnderscore(name) ==
  \E k \in 1..(Len(name) - 1) : name[k] = "_" /\ name[k + 1] = "_"

\* C30: the derived file name holds no whitespace character and no two underscores in
\* a row, so it differs from every key of PAPER_LINKS that has a double underscore.
C30_NoDoubleUnderscore ==
  pdfFile # <<>> =>
    /\ \A k \in DOMAIN pdfFile : pdfFile[k] \notin {" ", "\t"}
    /\ \A k \in 1..(Len(pdfFile) - 1) : ~(pdfFile[k] = "_" /\ pdfFile[k + 1] = "_")
    /\ \A key \in DOMAIN PAPER_LINKS :
         HasDoubleUnderscore(KeyChars(key)) => pdfFile # KeyChars(key)

\* the name of a title in which an underscore stands between two whitespace
\* characters, while the table holds a key with a double underscore
C30_Witness ==
  /\ pdfFile # <<>>
  /\ \E k \in 2..(Len(paperTitle) - 1) :
       /\ paperTitle[k] = "_"
       /\ paperTitle[k - 1] \in {" ", "\t"}
       /\ paperTitle[k + 1] \in {" ", "\t"}
  /\ Len(paperTitle) > 80
  /\ \E key \in DOMAIN PAPER_LINKS : HasDoubleUnderscore(KeyChars(key))

====
